---------------------------- MODULE Spec2Model ----------------------------
(***************************************************************************)
(* A model of hotfix-1np-responses-20210317.py: the record loop of main(), *)
(* the group writer, and the normalizers _process_timestamps,              *)
(* _process_intake, _process_mood_questionnaires, _process_task_stroop,    *)
(* _process_task_tapping and _process_healthdata.                          *)
(*                                                                         *)
(* Strings that the code formats or searches are sequences of tokens (a    *)
(* token is a word or a punctuation mark, and a description is its words,  *)
(* which single blanks separate), so that '%s:%s' % (a, b) is              *)
(* a \o <<":">> \o b and two different pairs may format to the same key.   *)
(* A timestamp is a civil date and time of day; epoch seconds are computed *)
(* from it as the library does.                                            *)
(***************************************************************************)
EXTENDS Integers, Sequences, FiniteSets

VARIABLES
    tz,                    \* UTC offset, in seconds, of the zone of the process
    response_records,      \* main: the parsed input array, as far as the loop has read it
    idx,                   \* main: the record the loop is at (0-based)
    pc,                    \* the position of the routine under study
    skipped,               \* main: the skip tally
    metadata,              \* main: the local `metadata`, which outlives an iteration
    participant_responses, \* main: submission_key -> count
    output_data,           \* main: file_key -> buffer, in insertion order
    files,                 \* main: the files written so far
    data,                  \* the payload handed to the normalizer under study
    parsed_record,         \* the record the normalizer under study fills
    i,                     \* the loop index of the normalizer under study
    matcher,               \* _process_task_stroop: the local `matcher`
    counters,              \* _process_task_tapping: its five counters
    accumulator            \* _process_healthdata: block type -> sums and range

vars == <<tz, response_records, idx, pc, skipped, metadata, participant_responses,
          output_data, files, data, parsed_record, i, matcher, counters,
          accumulator>>

-----------------------------------------------------------------------------
(* Values of a column: None, a string, a number, a boolean, or the packed   *)
(* date-sum list of Total_Dates_<TYPE>.  One record shape for all of them.  *)

None == [k |-> "none", s |-> <<>>, n |-> 0, l |-> <<>>]

Str(s) == [k |-> "str", s |-> s, n |-> 0, l |-> <<>>]

Num(n) == [k |-> "num", s |-> <<>>, n |-> n, l |-> <<>>]

\* True and False.
Bool(b) == [k |-> "bool", s |-> <<>>, n |-> IF b THEN 1 ELSE 0, l |-> <<>>]

\* The text of a timestamp: the ISO 8601 string of a date and time.
Iso(dt) == [k |-> "iso", s |-> <<>>, n |-> 0, l |-> <<dt>>]

\* The string of f"{date}-{sum}_" pieces, one per date bucket.
Packed(l) == [k |-> "packed", s |-> <<>>, n |-> 0, l |-> l]

\* Python's truth value of a column value: None, "", 0 and False are false.
Truthy(v) ==
    /\ v.k # "none"
    /\ ~(v.k = "str" /\ v.s = <<>>)
    /\ ~(v.k \in {"num", "bool"} /\ v.n = 0)

\* A column name: the pieces the code joins to make it, and for
\* f'Inter{i}_<name>' the slot number.
Col(name) == [name |-> <<name>>, slot |-> 0]

InterCol(slot, name) == [name |-> <<"Inter", name>>, slot |-> slot]

\* The keys of a dict, in insertion order.
Keys(d) == [j \in 1..Len(d) |-> d[j].key]

\* The values of a dict, in insertion order.
Values(d) == [j \in 1..Len(d) |-> d[j].val]

HasKey(d, key) == \E j \in 1..Len(d) : d[j].key = key

\* d[key], for a key the dict has.
GetItem(d, key) == d[CHOOSE j \in 1..Len(d) : d[j].key = key].val

\* d[key] = val: a new key goes last, an old key keeps its place.
SetItem(d, key, val) ==
    IF HasKey(d, key)
    THEN [j \in 1..Len(d) |-> IF d[j].key = key THEN [key |-> key, val |-> val] ELSE d[j]]
    ELSE Append(d, [key |-> key, val |-> val])

-----------------------------------------------------------------------------
(* datetime: fromisoformat(s).timestamp() and fromtimestamp(t).strftime.    *)

\* Days since 1970-01-01 of a civil date (the proleptic Gregorian calendar).
DaysFromCivil(y, m, d) ==
    LET yy  == IF m <= 2 THEN y - 1 ELSE y
        era == yy \div 400
        yoe == yy - era * 400
        mp  == IF m > 2 THEN m - 3 ELSE m + 9
        doy == (153 * mp + 2) \div 5 + d - 1
        doe == yoe * 365 + yoe \div 4 - yoe \div 100 + doy
    IN  era * 146097 + doe - 719468

\* The civil date <<y, m, d>> of a day number.
CivilFromDays(z) ==
    LET zz  == z + 719468
        era == zz \div 146097
        doe == zz - era * 146097
        yoe == (doe - doe \div 1460 + doe \div 36524 - doe \div 146096) \div 365
        doy == doe - (365 * yoe + yoe \div 4 - yoe \div 100)
        mp  == (5 * doy + 2) \div 153
        d   == doy - (153 * mp + 2) \div 5 + 1
        m   == IF mp < 10 THEN mp + 3 ELSE mp - 9
        y   == yoe + era * 400
    IN  <<IF m <= 2 THEN y + 1 ELSE y, m, d>>

SecondsOfDay(dt) == dt.h * 3600 + dt.mi * 60 + dt.s

\* datetime.fromisoformat(s).timestamp(): a timestamp that names its own
\* offset is taken at that offset, a naive one in the zone of the process.
Timestamp(dt, zone) ==
    DaysFromCivil(dt.y, dt.mo, dt.d) * 86400 + SecondsOfDay(dt)
      - (IF dt.aware THEN dt.off ELSE zone)

\* The naive date and time of a civil date and a second of the day.
DateTime(c, sod) ==
    [y |-> c[1], mo |-> c[2], d |-> c[3], h |-> sod \div 3600,
     mi |-> (sod % 3600) \div 60, s |-> sod % 60, aware |-> FALSE, off |-> 0]

\* datetime.fromtimestamp(t): the naive local date and time of an instant.
FromTimestamp(t, zone) ==
    DateTime(CivilFromDays((t + zone) \div 86400), (t + zone) % 86400)

\* strftime("%Y%m%d"), as the number the digits spell.
StrfYmd(dt) == dt.y * 10000 + dt.mo * 100 + dt.d

\* previous_date: start_time - start_time % 86400.
PreviousDate(start_time) == start_time - (start_time % 86400)

\* Date_as_Number: the start's epoch seconds cut to a multiple of 86400 and
\* formatted as a local date.
DateAsNumber(start, zone) ==
    StrfYmd(FromTimestamp(PreviousDate(Timestamp(start, zone)), zone))

\* _process_timestamps: five columns copied, then Date_as_Number.  A payload
\* without timestamps raises KeyError before any column is set.
ProcessTimestamps(d, pr, zone) ==
    IF ~d.has_timestamps
    THEN [pr |-> pr, exc |-> "KeyError"]
    ELSE [pr  |-> SetItem(SetItem(SetItem(SetItem(SetItem(SetItem(pr,
                      Col("time_start"), Iso(d.start)),
                      Col("time_end"), Str(<<"end">>)),
                      Col("time_scheduled_start"), Str(<<"scheduled_start">>)),
                      Col("time_scheduled_end"), Str(<<"scheduled_end">>)),
                      Col("submitted_at"), Str(<<"submitted">>)),
                      Col("Date_as_Number"), Num(DateAsNumber(d.start, zone))),
          exc |-> "none"]

-----------------------------------------------------------------------------
(* The Stroop pattern,                                                      *)
(*   ^.+(Green|Red|Yellow|Blue).+(Green|Red|Yellow|Blue).+\s(\d+)\s*$       *)
(* with re.IGNORECASE, on a description given as its words.                 *)

\* str.lower() of a word.
Lower(w) ==
    CASE w \in {"GREEN", "Green"} -> "green"
      [] w \in {"RED", "Red"}     -> "red"
      [] w \in {"BLUE", "Blue"}   -> "blue"
      [] w \in {"RIGHT", "Right"} -> "right"
      [] w \in {"LEFT", "Left"}   -> "left"
      [] w = "Tap"                -> "tap"
      [] w = "Say"                -> "say"
      [] OTHER                    -> w

\* (Green|Red|Yellow|Blue), ignoring case.
IsColor(w) == Lower(w) \in {"green", "red", "yellow", "blue"}

\* \d+
IsDigits(w) == w \in {"7", "42"}

\* The largest member of a non-empty set of numbers.
Max(S) == CHOOSE x \in S : \A y \in S : y <= x

\* The match object of a description whose colour words that a second group
\* can end at are at the places `cols`: each greedy .+ takes the last colour
\* it can, so the groups are the last two of them, and a word must stand
\* before the first.
Groups(desc, cols) ==
    IF Cardinality(cols) >= 2 /\ Max(cols \ {Max(cols)}) >= 2
    THEN [state |-> "match", color |-> desc[Max(cols \ {Max(cols)})],
          spelling |-> desc[Max(cols)]]
    ELSE [state |-> "none", color |-> "", spelling |-> ""]

\* pattern.match(description): None, or the two captured colour words.  The
\* last word must be the number, and one word at least must stand between
\* the second colour and it.
PatternMatch(desc) ==
    IF Len(desc) >= 1 /\ IsDigits(desc[Len(desc)])
    THEN Groups(desc, {j \in 1..Len(desc) : IsColor(desc[j]) /\ j <= Len(desc) - 2})
    ELSE [state |-> "none", color |-> "", spelling |-> ""]

\* A local that no statement has assigned yet.
Unbound == [state |-> "unbound", color |-> "", spelling |-> ""]

-----------------------------------------------------------------------------
(* _process_task_stroop                                                     *)

StroopSlots == 30

\* Whether data["results"] is a dict with no key.
EmptyDict(d) == d.results = "dict" /\ d.task = "" /\ d.groups = <<>>

\* data["results"][task]["interactions"], or the exception.
TaskInteractions(d, task) ==
    CASE d.results = "absent" -> [exc |-> "KeyError", list |-> <<>>]
      [] d.results = "list"   -> [exc |-> "TypeError", list |-> <<>>]
      [] d.results = "dict" /\ d.task # task -> [exc |-> "KeyError", list |-> <<>>]
      [] OTHER                -> [exc |-> "none", list |-> d.interactions]

\* interactions[j], or the stand-in of the IndexError handler, which has no
\* description.
SlotInteraction(interactions, j) ==
    IF j + 1 <= Len(interactions)
    THEN interactions[j + 1]
    ELSE [time |-> None, correctness |-> None, has_description |-> FALSE,
          description |-> None]

\* The try block around pattern.match: the KeyError of a missing description
\* is passed over and leaves matcher as the pass before left it; a
\* description that is no string raises TypeError.
StroopMatcher(interaction, m) ==
    CASE ~interaction.has_description -> [matcher |-> m, exc |-> "none"]
      [] interaction.has_description /\ interaction.description.k # "str" ->
           [matcher |-> m, exc |-> "TypeError"]
      [] OTHER -> [matcher |-> PatternMatch(interaction.description.s), exc |-> "none"]

\* The columns of slot j (0-based), given the outcome of the try block.
StroopColumns(pr, j, interaction, mm) ==
    CASE mm.exc # "none" -> [pr |-> pr, matcher |-> mm.matcher, exc |-> mm.exc]
      [] mm.exc = "none" /\ mm.matcher.state = "unbound" ->
           [pr |-> pr, matcher |-> mm.matcher, exc |-> "UnboundLocalError"]
      [] mm.exc = "none" /\ mm.matcher.state = "match" ->
           [pr |-> SetItem(SetItem(pr, InterCol(j + 1, "Color"), Str(<<mm.matcher.color>>)),
                           InterCol(j + 1, "Spelling"), Str(<<mm.matcher.spelling>>)),
            matcher |-> mm.matcher, exc |-> "none"]
      [] OTHER ->
           [pr |-> SetItem(SetItem(pr, InterCol(j + 1, "Color"), None),
                           InterCol(j + 1, "Spelling"), None),
            matcher |-> mm.matcher, exc |-> "none"]

\* Inter{j+1}_Date_Time and Inter{j+1}_Correct.
StroopTimeColumns(pr, j, interaction) ==
    SetItem(SetItem(pr, InterCol(j + 1, "Date_Time"),
                    IF Truthy(interaction.time) THEN interaction.time ELSE None),
            InterCol(j + 1, "Correct"), interaction.correctness)

\* The loop body for one interaction and the matcher of the pass before.
StroopBody(pr, j, interaction, m) ==
    StroopColumns(StroopTimeColumns(pr, j, interaction), j, interaction,
                  StroopMatcher(interaction, m))

\* One pass of the loop body, for slot j (0-based).
StroopPass(interactions, j, m, pr) ==
    StroopBody(pr, j, SlotInteraction(interactions, j), m)

\* The passes from slot j on, until the last slot or an exception.
RECURSIVE StroopLoop(_, _, _, _)
RECURSIVE StroopNext(_, _, _)
StroopNext(interactions, j, r) ==
    IF r.exc # "none"
    THEN [pr |-> r.pr, exc |-> r.exc]
    ELSE StroopLoop(interactions, j + 1, r.matcher, r.pr)

StroopLoop(interactions, j, m, pr) ==
    IF j >= StroopSlots
    THEN [pr |-> pr, exc |-> "none"]
    ELSE StroopNext(interactions, j, StroopPass(interactions, j, m, pr))

\* _process_task_stroop after _process_timestamps has returned t.
StroopAfter(t, it) ==
    CASE t.exc # "none" -> t
      [] t.exc = "none" /\ it.exc # "none" -> [pr |-> t.pr, exc |-> it.exc]
      [] OTHER -> StroopLoop(it.list, 0, Unbound, t.pr)

ProcessTaskStroop(d, pr, zone) ==
    StroopAfter(ProcessTimestamps(d, pr, zone), TaskInteractions(d, "at_stroopeffect"))

-----------------------------------------------------------------------------
(* _process_task_tapping                                                    *)

\* ' <word> ' in description.lower(): the word with a blank on either side,
\* so neither the first nor the last word of the description.
ContainsWord(desc, word) ==
    \E j \in 2..(Len(desc) - 1) : Lower(desc[j]) = word

NoTaps == [correct_right |-> 0, correct_left |-> 0, incorrect_right |-> 0,
           incorrect_left |-> 0, missing_data |-> 0]

\* The branches of the loop body for an interaction that is not the first.
TapCompare(prev, cur, c) ==
    CASE ~prev.has_description \/ ~cur.has_description -> [c |-> c, exc |-> "KeyError"]
      [] prev.has_description /\ cur.has_description /\ cur.description.k # "str" ->
           [c |-> c, exc |-> "AttributeError"]
      [] OTHER ->
           IF prev.description # cur.description
           THEN IF ContainsWord(cur.description.s, "right")
                THEN [c |-> [c EXCEPT !.correct_right = @ + 1], exc |-> "none"]
                ELSE IF ContainsWord(cur.description.s, "left")
                     THEN [c |-> [c EXCEPT !.correct_left = @ + 1], exc |-> "none"]
                     ELSE [c |-> c, exc |-> "none"]
           ELSE IF prev.description = cur.description
                THEN IF ContainsWord(cur.description.s, "right")
                     THEN [c |-> [c EXCEPT !.incorrect_right = @ + 1], exc |-> "none"]
                     ELSE IF ContainsWord(cur.description.s, "left")
                          THEN [c |-> [c EXCEPT !.incorrect_left = @ + 1], exc |-> "none"]
                          ELSE [c |-> c, exc |-> "none"]
                ELSE [c |-> [c EXCEPT !.missing_data = @ + 1], exc |-> "none"]

\* The pass that compares interaction j with the first one of the list.
TapPassAgainstFirst(interactions, j, c) ==
    IF j = 0
    THEN [c |-> c, exc |-> "none"]
    ELSE TapCompare(interactions[1], interactions[j + 1], c)

\* One pass of the loop body, for interaction j (0-based): the counters, or
\* the exception of a description that is missing or is no string.
TapPass(interactions, j, c) ==
    IF j = 0
    THEN [c |-> c, exc |-> "none"]
    ELSE TapCompare(interactions[j], interactions[j + 1], c)

RECURSIVE TapLoop(_, _, _)
RECURSIVE TapNext(_, _, _)
TapNext(interactions, j, r) ==
    IF r.exc # "none" THEN r ELSE TapLoop(interactions, j + 1, r.c)

TapLoop(interactions, j, c) ==
    IF j >= Len(interactions)
    THEN [c |-> c, exc |-> "none"]
    ELSE TapNext(interactions, j, TapPass(interactions, j, c))

\* The five counter columns, set after the loop.
TapColumns(pr, c) ==
    SetItem(SetItem(SetItem(SetItem(SetItem(pr,
        Col("Correct_Right_Hand"), Num(c.correct_right)),
        Col("Correct_Left_Hand"), Num(c.correct_left)),
        Col("Incorrect_Right_Hand"), Num(c.incorrect_right)),
        Col("Incorrect_Left_Hand"), Num(c.incorrect_left)),
        Col("Missing_data"), Num(c.missing_data))

\* The end of _process_task_tapping, after the loop has returned r.
TapFinish(pr, r) ==
    IF r.exc # "none"
    THEN [pr |-> pr, exc |-> r.exc]
    ELSE [pr |-> TapColumns(pr, r.c), exc |-> "none"]

\* _process_task_tapping after _process_timestamps has returned t.
TapAfter(t, it) ==
    CASE t.exc # "none" -> t
      [] t.exc = "none" /\ it.exc # "none" -> [pr |-> t.pr, exc |-> it.exc]
      [] OTHER -> TapFinish(t.pr, TapLoop(it.list, 0, NoTaps))

ProcessTaskTapping(d, pr, zone) ==
    TapAfter(ProcessTimestamps(d, pr, zone), TaskInteractions(d, "at_tapping"))

-----------------------------------------------------------------------------
(* _process_healthdata                                                      *)

\* The accumulator after a block of a type it has or has not seen, given the
\* block's day, value and the epoch seconds of its two ends.
HealthMerge(acc, block_type, date_from, value, current_date_from, current_date_to) ==
    IF HasKey(acc, block_type)
    THEN LET a == GetItem(acc, block_type)
         IN  SetItem(acc, block_type,
                     [sum        |-> IF HasKey(a.sum, date_from)
                                     THEN SetItem(a.sum, date_from,
                                                  GetItem(a.sum, date_from) + value)
                                     ELSE SetItem(a.sum, date_from, value),
                      date_first |-> IF current_date_from < a.date_first
                                     THEN current_date_from ELSE a.date_first,
                      date_last  |-> IF current_date_to > a.date_last
                                     THEN current_date_to ELSE a.date_last])
    ELSE SetItem(acc, block_type,
                 [sum        |-> SetItem(<<>>, date_from, value),
                  date_first |-> current_date_from,
                  date_last  |-> current_date_to])

\* The accumulator after a block that starts its type anew each time.
HealthReplace(acc, block, zone) ==
    SetItem(acc, block.type,
            [sum        |-> SetItem(<<>>, StrfYmd(block.dateFrom), block.value),
             date_first |-> Timestamp(block.dateFrom, zone),
             date_last  |-> Timestamp(block.dateTo, zone)])

\* One pass of the accumulating loop.
HealthPass(acc, block, zone) ==
    HealthMerge(acc, block.type, StrfYmd(block.dateFrom), block.value,
                Timestamp(block.dateFrom, zone), Timestamp(block.dateTo, zone))

RECURSIVE HealthLoop(_, _, _, _)
HealthLoop(blocks, j, acc, zone) ==
    IF j >= Len(blocks)
    THEN acc
    ELSE HealthLoop(blocks, j + 1, HealthPass(acc, blocks[j + 1], zone), zone)

\* The two block types that get columns, in the order of the code.
EmittedTypes == <<"HealthDataType.STEPS", "HealthDataType.ACTIVE_ENERGY_BURNED">>

\* block_type_key.split(".")[1]
ColName(block_type_key) ==
    IF block_type_key = "HealthDataType.STEPS" THEN "STEPS" ELSE "ACTIVE_ENERGY_BURNED"

\* int(x / unit), which cuts towards zero.
IntDiv(x, unit) == IF x >= 0 THEN x \div unit ELSE -((-x) \div unit)

\* round(int(time_diff / 3600) + (time_diff % 3600) / 3600, 2), in hundredths
\* of an hour.  Timestamps are whole minutes, for which no tie arises.
HoursRange(time_diff) ==
    IntDiv(time_diff, 3600) * 100 + ((time_diff % 3600) * 100 + 1800) \div 3600

\* The four columns of a block type the accumulator has.
HealthColumns(pr, col_name, a, zone) ==
    SetItem(SetItem(SetItem(SetItem(pr,
        [name |-> <<"Total_Dates_", col_name>>, slot |-> 0], Packed(a.sum)),
        [name |-> <<col_name, "_Session_Start_Time">>, slot |-> 0],
            Iso(FromTimestamp(a.date_first, zone))),
        [name |-> <<col_name, "_Session_End_Time">>, slot |-> 0],
            Iso(FromTimestamp(a.date_last, zone))),
        [name |-> <<col_name, "_Hours_Range">>, slot |-> 0],
            Num(HoursRange(a.date_last - a.date_first)))

\* The four columns of a block type the accumulator lacks.
HealthNoColumns(pr, col_name) ==
    SetItem(SetItem(SetItem(SetItem(pr,
        [name |-> <<"Total_Dates_", col_name>>, slot |-> 0], None),
        [name |-> <<col_name, "_Session_Start_Time">>, slot |-> 0], None),
        [name |-> <<col_name, "_Session_End_Time">>, slot |-> 0], None),
        [name |-> <<col_name, "_Hours_Range">>, slot |-> 0], None)

\* One pass of the emitting loop.
HealthEmit(pr, acc, block_type_key, zone) ==
    IF HasKey(acc, block_type_key)
    THEN HealthColumns(pr, ColName(block_type_key), GetItem(acc, block_type_key), zone)
    ELSE HealthNoColumns(pr, ColName(block_type_key))

\* The emitting loop over the two block types.
HealthEmitAll(pr, acc, zone) ==
    HealthEmit(HealthEmit(pr, acc, EmittedTypes[1], zone), acc, EmittedTypes[2], zone)

\* _process_healthdata after _process_timestamps has returned t.
HealthAfter(d, t, zone) ==
    CASE t.exc # "none" -> t
      [] t.exc = "none" /\ d.results = "absent" -> [pr |-> t.pr, exc |-> "KeyError"]
      [] t.exc = "none" /\ d.results = "dict" /\ ~EmptyDict(d) ->
           \* iterating a dict yields its keys, and block["type"] of a string raises
           [pr |-> t.pr, exc |-> "TypeError"]
      [] OTHER ->
           [pr  |-> HealthEmitAll(t.pr,
                        HealthLoop(IF d.results = "list" THEN d.blocks ELSE <<>>,
                                   0, <<>>, zone),
                        zone),
            exc |-> "none"]

ProcessHealthdata(d, pr, zone) == HealthAfter(d, ProcessTimestamps(d, pr, zone), zone)

-----------------------------------------------------------------------------
(* _process_intake and _process_mood_questionnaires                         *)

baseline_question_groups ==
    <<"Basic Demographic Information", "Basic Medical Information",
      "blood_circulation_problems", "blood_circulation_type",
      "heart_vascular_disorders", "heart_vascular_type",
      "musculoskeletal_concerns", "musculoskeletal_type",
      "respiratory_concerns", "respiratory_type", "symptoms_list">>

HasGroup(d, name) == \E j \in 1..Len(d.groups) : d.groups[j].name = name

\* data["results"][name]["results"], for a group the payload has.
GroupQuestions(d, name) ==
    d.groups[CHOOSE j \in 1..Len(d.groups) : d.groups[j].name = name].questions

\* parsed_record[key] = question["results"]["answer"][0]["text"] for each
\* question in turn, until one raises: KeyError without an answer,
\* IndexError on an empty answer list.
RECURSIVE AnswerLoop(_, _, _)
AnswerLoop(questions, j, pr) ==
    IF j > Len(questions)
    THEN [pr |-> pr, exc |-> "none"]
    ELSE CASE questions[j].answer = "missing" -> [pr |-> pr, exc |-> "KeyError"]
           [] questions[j].answer = "empty"   -> [pr |-> pr, exc |-> "IndexError"]
           [] OTHER -> AnswerLoop(questions, j + 1,
                                  SetItem(pr, Col(questions[j].key), Str(questions[j].text)))

\* The except clause of a group: KeyError leaves None under the group's own
\* key; any other exception goes on.
IntakeExcept(name, r) ==
    IF r.exc = "KeyError"
    THEN [pr |-> SetItem(r.pr, Col(name), None), exc |-> "none"]
    ELSE r

\* One pass of the loop over the group keys.
IntakePass(d, name, pr) ==
    CASE d.results = "list" -> [pr |-> pr, exc |-> "TypeError"]
      [] d.results = "absent" \/ (d.results = "dict" /\ ~HasGroup(d, name)) ->
           [pr |-> SetItem(pr, Col(name), None), exc |-> "none"]
      [] OTHER -> IntakeExcept(name, AnswerLoop(GroupQuestions(d, name), 1, pr))

RECURSIVE IntakeLoop(_, _, _)
RECURSIVE IntakeNext(_, _, _)
IntakeNext(d, j, r) ==
    IF r.exc # "none" THEN r ELSE IntakeLoop(d, j + 1, r.pr)

IntakeLoop(d, j, pr) ==
    IF j > Len(baseline_question_groups)
    THEN [pr |-> pr, exc |-> "none"]
    ELSE IntakeNext(d, j, IntakePass(d, baseline_question_groups[j], pr))

\* _process_intake after _process_timestamps has returned t.
IntakeAfter(d, t) ==
    IF t.exc # "none" THEN t ELSE IntakeLoop(d, 1, t.pr)

ProcessIntake(d, pr, zone) == IntakeAfter(d, ProcessTimestamps(d, pr, zone))

\* results["question10"] = q10: in place when the key is there, else last.
WithQuestion10(first, q10) ==
    IF \E j \in 1..Len(first) : first[j].key = "question10"
    THEN [j \in 1..Len(first) |-> IF first[j].key = "question10" THEN q10 ELSE first[j]]
    ELSE Append(first, q10)

\* The questions of a group, or none when the lookup raises KeyError.
QuestionsOf(d, name) ==
    IF d.results = "dict" /\ HasGroup(d, name) THEN GroupQuestions(d, name) ELSE <<>>

\* The second try block, given the questions of the two groups.
MoodMerge(first, q2) ==
    IF \E j \in 1..Len(q2) : q2[j].key = "question10"
    THEN WithQuestion10(first, q2[CHOOSE j \in 1..Len(q2) : q2[j].key = "question10"])
    ELSE first

\* The local `results` of _process_mood_questionnaires: the questions of
\* "Questions" (none when the lookup raises KeyError), with question10 of
\* "Questions 2" set into it when that lookup succeeds.
MoodResults(d) == MoodMerge(QuestionsOf(d, "Questions"), QuestionsOf(d, "Questions 2"))

\* _process_mood_questionnaires after _process_timestamps has returned t.
MoodAfter(d, t) ==
    CASE t.exc # "none" -> t
      [] t.exc = "none" /\ d.results = "list" -> [pr |-> t.pr, exc |-> "TypeError"]
      [] OTHER -> AnswerLoop(MoodResults(d), 1, t.pr)

ProcessMoodQuestionnaires(d, pr, zone) == MoodAfter(d, ProcessTimestamps(d, pr, zone))

-----------------------------------------------------------------------------
(* main: one pass of the loop over the records                              *)

\* A lookup with a default, RESPONSE_TYPES.get(code, 'unknown').
ResponseTypeOrDefault(code) ==
    CASE code = 1 -> [exc |-> "none", rtype |-> "questionnaire"]
      [] code = 2 -> [exc |-> "none", rtype |-> "task"]
      [] code = 3 -> [exc |-> "none", rtype |-> "healthdata"]
      [] OTHER    -> [exc |-> "none", rtype |-> "unknown"]

\* RESPONSE_TYPES[int(record['response_type'])], or the KeyError.
ResponseType(code) ==
    CASE code = 1 -> [exc |-> "none", rtype |-> "questionnaire"]
      [] code = 2 -> [exc |-> "none", rtype |-> "task"]
      [] code = 3 -> [exc |-> "none", rtype |-> "healthdata"]
      [] OTHER    -> [exc |-> "KeyError", rtype |-> ""]

\* The first try block: the study sub-field.
ParseStudy(record, pr) ==
    CASE record.study = "absent"     -> [pr |-> pr, exc |-> "none"]
      [] record.study = "bad_json"   -> [pr |-> pr, exc |-> "JSONDecodeError"]
      [] record.study = "no_version" ->
           [pr |-> SetItem(pr, Col("study"), Str(<<"1nP">>)), exc |-> "KeyError"]
      [] OTHER ->
           [pr  |-> SetItem(SetItem(pr, Col("study"), Str(<<"1nP">>)),
                            Col("study_version"), Str(<<"v1">>)),
            exc |-> "none"]

\* The second try block: the metadata sub-field.  `meta` is the local
\* `metadata` as the pass finds it; json.loads that raises leaves it alone.
ParseMetadata(record, pr, meta) ==
    LET md == record.metadata
        loaded == [bound |-> TRUE, activity |-> md.activity, short_name |-> md.short_name]
        p1 == IF md.activity = "named"
              THEN SetItem(pr, Col("activity"), Str(md.short_name))
              ELSE SetItem(pr, Col("activity"), Str(<<"all">>))
        p2 == SetItem(p1, Col("app_version"), Str(<<"1.0", " - ", "42">>))
    IN  CASE ~md.present -> [pr |-> pr, metadata |-> meta, exc |-> "none"]
          [] md.present /\ ~md.json_ok ->
               [pr |-> pr, metadata |-> meta, exc |-> "JSONDecodeError"]
          [] md.present /\ md.json_ok /\ md.activity = "no_short_name" ->
               [pr |-> pr, metadata |-> loaded, exc |-> "KeyError"]
          [] OTHER ->
               CASE md.app = "absent"    -> [pr |-> p1, metadata |-> loaded, exc |-> "none"]
                 [] md.app = "no_build"  -> [pr |-> p1, metadata |-> loaded, exc |-> "KeyError"]
                 [] md.app = "no_device" -> [pr |-> p2, metadata |-> loaded, exc |-> "KeyError"]
                 [] OTHER ->
                      [pr |-> SetItem(p2, Col("timezone"), Str(<<"Europe/Amsterdam">>)),
                       metadata |-> loaded, exc |-> "none"]

\* metadata["activity"]["short_name"] in the third try block, read from the
\* local `metadata`, which is the one of an earlier record when this record
\* assigned none.
ActivityType(meta) ==
    CASE ~meta.bound                     -> [exc |-> "NameError", name |-> <<>>]
      [] meta.activity = "absent"        -> [exc |-> "KeyError", name |-> <<>>]
      [] meta.activity = "null"          -> [exc |-> "TypeError", name |-> <<>>]
      [] meta.activity = "no_short_name" -> [exc |-> "KeyError", name |-> <<>>]
      [] OTHER                           -> [exc |-> "none", name |-> meta.short_name]

\* The normalizer a questionnaire's activity selects.
QuestionnaireData(d, pr, name, zone) ==
    CASE name = <<"qes_intake">> -> ProcessIntake(d, pr, zone)
      [] name = <<"qes_final">>  -> [pr |-> pr, exc |-> "none"]
      [] OTHER                   -> ProcessMoodQuestionnaires(d, pr, zone)

\* The normalizer a task's activity selects, if any.
TaskData(d, pr, name, zone) ==
    CASE name = <<"at_stroopeffect">> -> ProcessTaskStroop(d, pr, zone)
      [] name = <<"at_tapping">>      -> ProcessTaskTapping(d, pr, zone)
      [] OTHER                        -> [pr |-> pr, exc |-> "none"]

\* The branches on rtype, given the outcome of reading the activity's name.
TypedData(d, pr, at, rtype, zone) ==
    CASE rtype = "healthdata" -> ProcessHealthdata(d, pr, zone)
      [] rtype # "healthdata" /\ at.exc # "none" -> [pr |-> pr, exc |-> at.exc]
      [] rtype = "questionnaire" /\ at.exc = "none" -> QuestionnaireData(d, pr, at.name, zone)
      [] OTHER -> TaskData(d, pr, at.name, zone)

\* The third try block: the data sub-field and the normalizer it selects.
ParseData(record, pr, meta, rtype, zone) ==
    CASE ~record.has_data -> [pr |-> pr, exc |-> "none"]
      [] record.has_data /\ ~record.data_json_ok -> [pr |-> pr, exc |-> "JSONDecodeError"]
      [] OTHER -> TypedData(record.data, pr, ActivityType(meta), rtype, zone)

\* '%s-%s' % (parsed_record['response_type'], parsed_record['activity'])
FileKey(response_type, activity) == response_type \o <<"-">> \o activity

\* '%s:%s' % (pid, file_key)
SubmissionKey(pid, file_key) == pid \o <<":">> \o file_key

\* The record as lines 120-124 build it.
NewRecord(record, rtype) ==
    <<[key |-> Col("id"), val |-> Num(record.id)],
      [key |-> Col("participant"), val |-> Str(record.participant_id)],
      [key |-> Col("response_type"), val |-> Str(<<rtype>>)]>>

\* What an except block adds to skipped.
Skip(r) == IF r.exc # "none" THEN 1 ELSE 0

\* The pass after the first try block has left s.  An except block counts
\* the record and falls through to the rest of the pass (`next` is an
\* expression, not a statement).
AfterStudy(st, s) == [pr |-> s.pr, skips |-> st.skips + Skip(s), metadata |-> st.metadata]

\* The pass after the second try block has left m, with received_at set.
AfterMetadata(st, m) ==
    [pr       |-> SetItem(m.pr, Col("received_at"), Str(<<"created_at">>)),
     skips    |-> st.skips + Skip(m),
     metadata |-> m.metadata]

\* The pass after the third try block has left d: the lookup of
\* parsed_record['activity'] for the file key raises KeyError when no
\* statement has set it.
AfterData(st, d) ==
    [pr       |-> d.pr,
     skips    |-> st.skips + Skip(d),
     metadata |-> st.metadata,
     exc      |-> IF HasKey(d.pr, Col("activity")) THEN "none" ELSE "KeyError"]

TryStudy(record, st) == AfterStudy(st, ParseStudy(record, st.pr))

TryMetadata(record, st) == AfterMetadata(st, ParseMetadata(record, st.pr, st.metadata))

TryData(record, st, rtype, zone) ==
    AfterData(st, ParseData(record, st.pr, st.metadata, rtype, zone))

\* The pass for a record whose response type lookup has left rt.
TypedPass(record, meta, zone, rt) ==
    IF rt.exc # "none"
    THEN [pr |-> <<>>, skips |-> 0, metadata |-> meta, exc |-> rt.exc]
    ELSE TryData(record,
                 TryMetadata(record,
                     TryStudy(record, [pr |-> NewRecord(record, rt.rtype), skips |-> 0,
                                       metadata |-> meta])),
                 rt.rtype, zone)

\* One pass of the loop of main for `record`: the record built, what the pass
\* adds to skipped, the local `metadata` it leaves, and the exception that
\* leaves main, if any.
Pass(record, meta, zone) == TypedPass(record, meta, zone, ResponseType(record.response_type))

-----------------------------------------------------------------------------
(* The inputs                                                               *)

MaxRecords == 3

\* A naive timestamp.
DT(y, mo, d, h, mi, s) ==
    [y |-> y, mo |-> mo, d |-> d, h |-> h, mi |-> mi, s |-> s, aware |-> FALSE, off |-> 0]

\* A payload with its timestamps and no results.
Payload == [has_timestamps |-> TRUE, start |-> DT(2021, 3, 17, 14, 30, 0),
            results |-> "absent", task |-> "", interactions |-> <<>>,
            groups |-> <<>>, blocks |-> <<>>]

Interaction(time, correct, desc) ==
    [time |-> time, correctness |-> Bool(correct), has_description |-> TRUE,
     description |-> Str(desc)]

StroopPayload(interactions) ==
    [Payload EXCEPT !.results = "dict", !.task = "at_stroopeffect",
                    !.interactions = interactions]

TappingPayload(interactions) ==
    [Payload EXCEPT !.results = "dict", !.task = "at_tapping",
                    !.interactions = interactions]

HealthPayload(blocks) == [Payload EXCEPT !.results = "list", !.blocks = blocks]

QuestionPayload(groups) == [Payload EXCEPT !.results = "dict", !.groups = groups]

Question(key, answer) == [key |-> key, answer |-> answer, text |-> <<"yes">>]

Block(type, from, to, value) ==
    [type |-> type, dateFrom |-> from, dateTo |-> to, value |-> value]

\* The metadata sub-field of a record.
Meta(activity, short_name, app) ==
    [present |-> TRUE, json_ok |-> TRUE, activity |-> activity,
     short_name |-> short_name, app |-> app]

NoMeta == [Meta("absent", <<>>, "absent") EXCEPT !.present = FALSE]

BadMeta == [Meta("absent", <<>>, "absent") EXCEPT !.json_ok = FALSE]

\* A record without a data sub-field.
Rec(pid, code, study, meta) ==
    [id |-> 0, participant_id |-> pid, response_type |-> code, study |-> study,
     metadata |-> meta, has_data |-> FALSE, data_json_ok |-> TRUE, data |-> Payload]

WithData(r, d) == [r EXCEPT !.has_data = TRUE, !.data = d]

\* The records the input arrays are made of.  The participants are "a" and
\* "a:task-b", the activities "c", "b:task-c" and those the normalizers are
\* selected by; each sub-field is well formed, absent or malformed.
RecordSet ==
    {Rec(<<"a">>, 2, "ok", Meta("named", <<"c">>, "ok")),
     Rec(<<"a">>, 2, "ok", Meta("named", <<"b", ":", "task", "-", "c">>, "ok")),
     Rec(<<"a", ":", "task", "-", "b">>, 2, "ok", Meta("named", <<"c">>, "ok")),
     Rec(<<"a">>, 4, "ok", Meta("named", <<"c">>, "ok")),
     Rec(<<"a">>, 2, "absent", Meta("named", <<"c">>, "ok")),
     Rec(<<"a">>, 2, "bad_json", Meta("named", <<"c">>, "ok")),
     Rec(<<"a">>, 2, "ok", NoMeta),
     Rec(<<"a">>, 2, "ok", BadMeta),
     Rec(<<"a">>, 2, "ok", Meta("no_short_name", <<>>, "no_build")),
     Rec(<<"a">>, 2, "no_version", Meta("named", <<"c">>, "no_device")),
     WithData(Rec(<<"a">>, 2, "ok", Meta("null", <<>>, "absent")), TappingPayload(<<>>)),
     WithData(Rec(<<"a">>, 2, "ok", Meta("named", <<"at_stroopeffect">>, "ok")),
              StroopPayload(<<>>)),
     WithData(Rec(<<"a">>, 2, "ok", Meta("named", <<"at_tapping">>, "ok")),
              TappingPayload(<<Interaction(Str(<<"t1">>), TRUE, <<"Tap", "right", "button">>),
                               Interaction(Str(<<"t2">>), TRUE, <<"Tap", "left", "button">>)>>)),
     WithData(Rec(<<"a">>, 3, "ok", Meta("absent", <<>>, "ok")),
              HealthPayload(<<Block("HealthDataType.STEPS", DT(2021, 3, 17, 8, 0, 0),
                                    DT(2021, 3, 17, 9, 30, 0), 100)>>)),
     WithData(Rec(<<"a">>, 1, "ok", Meta("named", <<"qes_intake">>, "ok")),
              QuestionPayload(<<[name |-> "symptoms_list",
                                 questions |-> <<Question("fever", "ok"),
                                                 Question("cough", "missing")>>]>>)),
     WithData(Rec(<<"a">>, 1, "ok", Meta("named", <<"mood">>, "ok")),
              QuestionPayload(<<[name |-> "Questions",
                                 questions |-> <<Question("question1", "ok")>>],
                                [name |-> "Questions 2",
                                 questions |-> <<Question("question10", "ok")>>]>>))}

NoMetadata == [bound |-> FALSE, activity |-> "absent", short_name |-> <<>>]

\* What the variables of the normalizers hold while main runs.
Idle ==
    /\ data = Payload
    /\ i = 0
    /\ matcher = Unbound
    /\ counters = NoTaps
    /\ accumulator = <<>>

-----------------------------------------------------------------------------
(* main                                                                     *)

Init ==
    /\ tz = 0
    /\ response_records = <<>>
    /\ idx = 0
    /\ pc = "loop"
    /\ skipped = 0
    /\ metadata = NoMetadata
    /\ participant_responses = <<>>
    /\ output_data = <<>>
    /\ files = <<>>
    /\ parsed_record = <<>>
    /\ Idle

\* participant_responses after the pass has counted pid in file_key.
Counted(counts, submission_key) ==
    SetItem(counts, submission_key,
            (IF HasKey(counts, submission_key) THEN GetItem(counts, submission_key) ELSE 0) + 1)

\* output_data with the group's buffer started anew by the record.
Restarted(groups, file_key, record) == SetItem(groups, file_key, <<record>>)

\* output_data after the pass has appended the record to its group.
Appended(groups, file_key, record) ==
    SetItem(groups, file_key,
            Append(IF HasKey(groups, file_key) THEN GetItem(groups, file_key) ELSE <<>>,
                   record))

\* '%s-%s' of the record's response_type and activity columns.
RecordFileKey(pr) ==
    FileKey(GetItem(pr, Col("response_type")).s, GetItem(pr, Col("activity")).s)

\* The record with its submission_index column.
Stamped(pr, counts, submission_key) ==
    SetItem(pr, Col("submission_index"), Num(GetItem(counts, submission_key)))

\* Lines 195-210 for the record pr of participant pid.
Keep(pr, pid, file_key, counts) ==
    /\ participant_responses' = counts
    /\ parsed_record' = Stamped(pr, counts, SubmissionKey(pid, file_key))
    /\ output_data' = Appended(output_data, file_key,
                               Stamped(pr, counts, SubmissionKey(pid, file_key)))

\* One pass of the loop, for the next record of the array (its id is its
\* place in the array).  An exception that no try block catches ends main.
ProcessRecord ==
    /\ pc = "loop"
    /\ idx < MaxRecords
    /\ \E input \in RecordSet :
         \E r \in {Pass([input EXCEPT !.id = idx + 1], metadata, tz)} :
             /\ response_records' = Append(response_records, [input EXCEPT !.id = idx + 1])
             /\ skipped' = skipped + r.skips
             /\ metadata' = r.metadata
             /\ IF r.exc # "none"
                THEN /\ pc' = "aborted"
                     /\ parsed_record' = r.pr
                     /\ UNCHANGED <<idx, participant_responses, output_data>>
                ELSE /\ pc' = pc
                     /\ idx' = idx + 1
                     /\ Keep(r.pr, input.participant_id, RecordFileKey(r.pr),
                             Counted(participant_responses,
                                     SubmissionKey(input.participant_id, RecordFileKey(r.pr))))
    /\ UNCHANGED <<tz, files, data, i, matcher, counters, accumulator>>

\* The file of one group: the header is the keys of the group's first record,
\* each row the values of a record.
WrittenFile(output_file, output_records) ==
    [filename |-> <<"qc-responses-1nP-">> \o output_file \o <<".csv">>,
     header   |-> Keys(output_records[1]),
     rows     |-> [j \in 1..Len(output_records) |-> Values(output_records[j])]]

\* The array has no further record: the loop over output_files writes one
\* file per group, in the order of the groups' first records, and main
\* returns.
WriteFiles ==
    /\ pc = "loop"
    /\ idx = Len(response_records)
    /\ files' = [j \in 1..Len(output_data) |->
                    WrittenFile(output_data[j].key, output_data[j].val)]
    /\ pc' = "done"
    /\ UNCHANGED <<tz, response_records, idx, skipped, metadata, participant_responses,
                   output_data, data, parsed_record, i, matcher, counters, accumulator>>

Next == ProcessRecord \/ WriteFiles

Spec == Init /\ [][Next]_vars

-----------------------------------------------------------------------------
(* _process_timestamps on its own                                           *)

\* What the variables of main hold while a normalizer runs on its own.
MainIdle ==
    /\ response_records = <<>>
    /\ idx = 0
    /\ skipped = 0
    /\ metadata = NoMetadata
    /\ participant_responses = <<>>
    /\ output_data = <<>>
    /\ files = <<>>

\* The UTC offsets of the zones, in seconds: every whole hour from UTC-12 to
\* UTC+14, and UTC+5:30.
Zones == {h * 3600 : h \in -12..14} \cup {19800}

\* Start timestamps: times of day from the first to the last second, on days
\* at the ends of a month and of a year and in a leap February, naive or
\* with an offset of their own.
Starts ==
    {[DT(date[1], date[2], date[3], time[1], time[2], time[3])
        EXCEPT !.aware = own[1], !.off = own[2]] :
       date \in {<<2021, 3, 17>>, <<2021, 3, 18>>, <<2021, 3, 1>>, <<2020, 2, 29>>,
                 <<2020, 12, 31>>, <<2021, 1, 1>>},
       time \in {<<0, 0, 0>>, <<0, 0, 1>>, <<14, 30, 0>>, <<23, 59, 59>>},
       own  \in {<<FALSE, 0>>, <<TRUE, 0>>, <<TRUE, -18000>>}}

InitTime ==
    /\ tz \in Zones
    /\ pc = "timestamps"
    /\ data \in {[Payload EXCEPT !.start = st] : st \in Starts}
                  \cup {[Payload EXCEPT !.has_timestamps = FALSE]}
    /\ parsed_record = <<>>
    /\ i = 0
    /\ matcher = Unbound
    /\ counters = NoTaps
    /\ accumulator = <<>>
    /\ MainIdle

\* The call of _process_timestamps.
Timestamps ==
    /\ pc = "timestamps"
    /\ LET r == ProcessTimestamps(data, parsed_record, tz)
       IN  /\ parsed_record' = r.pr
           /\ pc' = IF r.exc = "none" THEN "returned" ELSE "raised"
    /\ UNCHANGED <<tz, response_records, idx, skipped, metadata, participant_responses,
                   output_data, files, data, i, matcher, counters, accumulator>>

NextTime == Timestamps

SpecTime == InitTime /\ [][NextTime]_vars

-----------------------------------------------------------------------------
(* _process_task_stroop on its own, one pass of its loop at a time          *)

MaxInteractions == 2

\* The sequences over S of at most n members.
SeqUpTo(S, n) == UNION {[1..m -> S] : m \in 0..n}

Descriptions ==
    {<<"Say", "GREEN", "in", "Red", "ink", "42">>,
     <<"Say", "Red", "or", "Blue", "or", "Green", "now", "7">>,
     <<"Red", "Blue", "ink", "42">>,
     <<"Say", "Red", "Blue", "42">>}

StroopInteractions ==
    {Interaction(Str(<<"t1">>), TRUE, desc) : desc \in Descriptions}
      \cup {[Interaction(Str(<<>>), FALSE, <<>>) EXCEPT !.has_description = FALSE],
            [Interaction(Str(<<"t2">>), FALSE, <<>>) EXCEPT !.description = None]}

InitStroop ==
    /\ tz = 0
    /\ pc = "stroop"
    /\ data \in {StroopPayload(l) : l \in SeqUpTo(StroopInteractions, MaxInteractions)}
                  \cup {[Payload EXCEPT !.has_timestamps = FALSE], Payload}
    /\ parsed_record = <<>>
    /\ i = 0
    /\ matcher = Unbound
    /\ counters = NoTaps
    /\ accumulator = <<>>
    /\ MainIdle

\* The statements before the loop.
StroopEnter ==
    /\ pc = "stroop"
    /\ LET t  == ProcessTimestamps(data, parsed_record, tz)
           it == TaskInteractions(data, "at_stroopeffect")
       IN  /\ parsed_record' = t.pr
           /\ pc' = IF t.exc = "none" /\ it.exc = "none" THEN "stroop_loop" ELSE "raised"
    /\ UNCHANGED <<tz, response_records, idx, skipped, metadata, participant_responses,
                   output_data, files, data, i, matcher, counters, accumulator>>

\* One pass of the loop over the slots.
StroopStep ==
    /\ pc = "stroop_loop"
    /\ i < StroopSlots
    /\ LET r == StroopPass(data.interactions, i, matcher, parsed_record)
       IN  /\ parsed_record' = r.pr
           /\ matcher' = r.matcher
           /\ IF r.exc = "none"
              THEN i' = i + 1 /\ pc' = pc
              ELSE i' = i /\ pc' = "raised"
    /\ UNCHANGED <<tz, response_records, idx, skipped, metadata, participant_responses,
                   output_data, files, data, counters, accumulator>>

StroopReturn ==
    /\ pc = "stroop_loop"
    /\ i = StroopSlots
    /\ pc' = "returned"
    /\ UNCHANGED <<tz, response_records, idx, skipped, metadata, participant_responses,
                   output_data, files, data, parsed_record, i, matcher, counters,
                   accumulator>>

NextStroop == StroopEnter \/ StroopStep \/ StroopReturn

SpecStroop == InitStroop /\ [][NextStroop]_vars

-----------------------------------------------------------------------------
(* _process_task_tapping on its own, one pass of its loop at a time         *)

MaxTaps == 3

TapInteractions ==
    {Interaction(Str(<<"t1">>), TRUE, desc) :
       desc \in {<<"Tap", "right", "button">>, <<"Tap", "LEFT", "button">>,
                 <<"Tap", "left", "then", "Right", "side">>, <<"right", "now">>,
                 <<"Tap", "the", "screen">>}}
      \cup {[Interaction(Str(<<"t1">>), TRUE, <<>>) EXCEPT !.has_description = FALSE],
            [Interaction(Str(<<"t1">>), TRUE, <<>>) EXCEPT !.description = None]}

InitTap ==
    /\ tz = 0
    /\ pc = "tapping"
    /\ data \in {TappingPayload(l) : l \in SeqUpTo(TapInteractions, MaxTaps)}
                  \cup {HealthPayload(<<>>)}
    /\ parsed_record = <<>>
    /\ i = 0
    /\ matcher = Unbound
    /\ counters = NoTaps
    /\ accumulator = <<>>
    /\ MainIdle

\* The statements before the loop.
TapEnter ==
    /\ pc = "tapping"
    /\ LET t  == ProcessTimestamps(data, parsed_record, tz)
           it == TaskInteractions(data, "at_tapping")
       IN  /\ parsed_record' = t.pr
           /\ pc' = IF t.exc = "none" /\ it.exc = "none" THEN "tapping_loop" ELSE "raised"
    /\ UNCHANGED <<tz, response_records, idx, skipped, metadata, participant_responses,
                   output_data, files, data, i, matcher, counters, accumulator>>

\* One pass of the loop over the interactions.
TapStep ==
    /\ pc = "tapping_loop"
    /\ i < Len(data.interactions)
    /\ LET r == TapPass(data.interactions, i, counters)
       IN  /\ counters' = r.c
           /\ IF r.exc = "none"
              THEN i' = i + 1 /\ pc' = pc
              ELSE i' = i /\ pc' = "raised"
    /\ UNCHANGED <<tz, response_records, idx, skipped, metadata, participant_responses,
                   output_data, files, data, parsed_record, matcher, accumulator>>

\* The statements after the loop.
TapReturn ==
    /\ pc = "tapping_loop"
    /\ i = Len(data.interactions)
    /\ parsed_record' = TapColumns(parsed_record, counters)
    /\ pc' = "returned"
    /\ UNCHANGED <<tz, response_records, idx, skipped, metadata, participant_responses,
                   output_data, files, data, i, matcher, counters, accumulator>>

NextTap == TapEnter \/ TapStep \/ TapReturn

SpecTap == InitTap /\ [][NextTap]_vars

-----------------------------------------------------------------------------
(* _process_healthdata on its own, one pass of its loops at a time          *)

MaxBlocks == 2

\* Blocks of the two emitted types and of a third, on two days, with a block
\* that runs over midnight and one whose timestamps name their own offset.
Blocks ==
    {Block("HealthDataType.STEPS", DT(2021, 3, 17, 8, 0, 0), DT(2021, 3, 17, 9, 20, 0), 100),
     Block("HealthDataType.STEPS", DT(2021, 3, 17, 8, 0, 0), DT(2021, 3, 17, 9, 20, 0), 250),
     Block("HealthDataType.STEPS", DT(2021, 3, 17, 23, 30, 0), DT(2021, 3, 18, 8, 15, 0), 250),
     Block("HealthDataType.STEPS", DT(2021, 3, 18, 7, 0, 0), DT(2021, 3, 18, 8, 15, 0), 100),
     Block("HealthDataType.ACTIVE_ENERGY_BURNED", DT(2021, 3, 17, 8, 0, 0),
           DT(2021, 3, 17, 9, 20, 0), 100),
     Block("HealthDataType.ACTIVE_ENERGY_BURNED", DT(2021, 3, 18, 7, 0, 0),
           DT(2021, 3, 18, 8, 15, 0), 250),
     Block("HealthDataType.ACTIVE_ENERGY_BURNED",
           [DT(2021, 3, 17, 23, 30, 0) EXCEPT !.aware = TRUE, !.off = -18000],
           [DT(2021, 3, 18, 0, 45, 0) EXCEPT !.aware = TRUE, !.off = -18000], 100),
     Block("HealthDataType.HEART_RATE", DT(2021, 3, 17, 6, 0, 0),
           DT(2021, 3, 18, 23, 0, 0), 100)}

InitHealth ==
    /\ tz \in {0, 19800}
    /\ pc = "healthdata"
    /\ data \in {HealthPayload(l) : l \in SeqUpTo(Blocks, MaxBlocks)}
                  \cup {Payload, StroopPayload(<<>>)}
    /\ parsed_record = <<>>
    /\ i = 0
    /\ matcher = Unbound
    /\ counters = NoTaps
    /\ accumulator = <<>>
    /\ MainIdle

\* The statements before the first loop.
HealthEnter ==
    /\ pc = "healthdata"
    /\ LET t == ProcessTimestamps(data, parsed_record, tz)
       IN  /\ parsed_record' = t.pr
           /\ pc' = CASE t.exc # "none" \/ data.results = "absent" -> "raised"
                      [] t.exc = "none" /\ data.results = "dict" /\ ~EmptyDict(data) -> "raised"
                      [] OTHER -> "health_loop"
    /\ UNCHANGED <<tz, response_records, idx, skipped, metadata, participant_responses,
                   output_data, files, data, i, matcher, counters, accumulator>>

\* One pass of the loop over the blocks.
HealthStep ==
    /\ pc = "health_loop"
    /\ i < Len(data.blocks)
    /\ accumulator' = HealthPass(accumulator, data.blocks[i + 1], tz)
    /\ i' = i + 1
    /\ UNCHANGED <<tz, response_records, idx, pc, skipped, metadata,
                   participant_responses, output_data, files, data, parsed_record,
                   matcher, counters>>

\* The first loop is over.
HealthEndLoop ==
    /\ pc = "health_loop"
    /\ i = Len(data.blocks)
    /\ pc' = "health_emit"
    /\ i' = 0
    /\ UNCHANGED <<tz, response_records, idx, skipped, metadata, participant_responses,
                   output_data, files, data, parsed_record, matcher, counters,
                   accumulator>>

\* One pass of the loop over the two emitted block types.
HealthEmitStep ==
    /\ pc = "health_emit"
    /\ i < Len(EmittedTypes)
    /\ parsed_record' = HealthEmit(parsed_record, accumulator, EmittedTypes[i + 1], tz)
    /\ i' = i + 1
    /\ UNCHANGED <<tz, response_records, idx, pc, skipped, metadata,
                   participant_responses, output_data, files, data, matcher, counters,
                   accumulator>>

HealthReturn ==
    /\ pc = "health_emit"
    /\ i = Len(EmittedTypes)
    /\ pc' = "returned"
    /\ UNCHANGED <<tz, response_records, idx, skipped, metadata, participant_responses,
                   output_data, files, data, parsed_record, i, matcher, counters,
                   accumulator>>

NextHealth == HealthEnter \/ HealthStep \/ HealthEndLoop \/ HealthEmitStep \/ HealthReturn

SpecHealth == InitHealth /\ [][NextHealth]_vars

-----------------------------------------------------------------------------
(* The properties of main                                                   *)

\* The record the loop has read last.
LastRecord == response_records[Len(response_records)]

\* C1: in every group buffer, the k-th record of a participant carries
\* submission_index k (the indices of a participant in a group are 1, 2, ...
\* in input order, whatever other participants and groups do).
C1_SubmissionIndexPerPair ==
    \A g \in 1..Len(output_data) :
        \A j \in 1..Len(output_data[g].val) :
            GetItem(output_data[g].val[j], Col("submission_index")).n
              = Cardinality({k \in 1..j :
                    GetItem(output_data[g].val[k], Col("participant"))
                      = GetItem(output_data[g].val[j], Col("participant"))})

\* C2: a pass in which a try block has raised (the skip tally has grown) does
\* not end the run: the loop stays at work and goes on to the next record.
C2_ParseExceptionsRecoverable ==
    [][skipped' > skipped => (pc' = "loop" /\ idx' = idx + 1)]_vars

\* C3: the pass that reads a record whose response_type code is not 1, 2 or
\* 3 ends main at that record, leaves the skip tally, the loop index and the
\* buffers as they were and writes no file; and once main has ended so,
\* nothing happens any more: no later record is read and no file is written.
C3_InvalidResponseTypeFatal ==
    [][/\ pc # "aborted"
       /\ (/\ Len(response_records') = Len(response_records) + 1
           /\ response_records'[Len(response_records')].response_type \notin {1, 2, 3})
          => /\ pc' = "aborted"
             /\ skipped' = skipped
             /\ idx' = idx
             /\ output_data' = output_data
             /\ participant_responses' = participant_responses
             /\ files' = <<>>]_vars

\* C3, its case: main has ended at a record with an unknown code, after an
\* earlier record has been buffered, and no file is written.
C3_Witness ==
    /\ pc = "aborted"
    /\ idx >= 1
    /\ LastRecord.response_type \notin {1, 2, 3}
    /\ output_data # <<>>
    /\ files = <<>>

\* The activity C4 states for a record: the short name when the metadata has
\* one, "all" otherwise.
StatedActivity(record) ==
    IF record.metadata.present /\ record.metadata.activity = "named"
    THEN record.metadata.short_name
    ELSE <<"all">>

\* C4: when the record read last has a valid response type and either no
\* metadata field or a well-formed one whose activity is named, absent or
\* null, the pass does not end main, the activity column is the short name
\* or "all", and the record is the last of the group
\* "<response_type>-<activity>".
C4_ActivityDefaultsToAll ==
    (/\ Len(response_records) > 0
     /\ LastRecord.response_type \in {1, 2, 3}
     /\ \/ ~LastRecord.metadata.present
        \/ /\ LastRecord.metadata.json_ok
           /\ LastRecord.metadata.activity \in {"named", "absent", "null"})
    => /\ pc # "aborted"
       /\ HasKey(parsed_record, Col("activity"))
       /\ GetItem(parsed_record, Col("activity")) = Str(StatedActivity(LastRecord))
       /\ HasKey(output_data,
                 FileKey(<<ResponseType(LastRecord.response_type).rtype>>,
                         StatedActivity(LastRecord)))
       /\ LET buffer == GetItem(output_data,
                                FileKey(<<ResponseType(LastRecord.response_type).rtype>>,
                                        StatedActivity(LastRecord)))
          IN  buffer[Len(buffer)] = parsed_record

\* C8: when the files are written, every record of a group's buffer has
\* exactly the columns of the file's header, in the header's order.
C8_RowsAlignWithHeader ==
    pc = "done" =>
        \A f \in 1..Len(files) :
            \A j \in 1..Len(output_data[f].val) :
                Keys(output_data[f].val[j]) = files[f].header

\* The number of records in the buffers of the groups from g on.
RECURSIVE Buffered(_, _)
Buffered(groups, g) ==
    IF g > Len(groups) THEN 0 ELSE Len(groups[g].val) + Buffered(groups, g + 1)

\* The sum of the counts from the j-th on.
RECURSIVE Submissions(_, _)
Submissions(counts, j) ==
    IF j > Len(counts) THEN 0 ELSE counts[j].val + Submissions(counts, j + 1)

\* The places <<g, j>> of the buffers.
Places == UNION {{<<g, j>> : j \in 1..Len(output_data[g].val)} : g \in 1..Len(output_data)}

\* C9: every record the loop has gone through, skipped or not, is in exactly
\* one buffer exactly once, stamped with a submission_index, the buffers keep
\* the input order, the buffer lengths add up to the number of records gone
\* through and so do the submission counts; in a run that has not ended
\* early these are all the records read.
C9_SkippedRecordsStayInOutput ==
    /\ pc # "aborted" => idx = Len(response_records)
    /\ Buffered(output_data, 1) = idx
    /\ Submissions(participant_responses, 1) = idx
    /\ \A k \in 1..idx :
           Cardinality({p \in Places :
               GetItem(output_data[p[1]].val[p[2]], Col("id")) = Num(k)}) = 1
    /\ \A p \in Places :
           /\ HasKey(output_data[p[1]].val[p[2]], Col("submission_index"))
           /\ GetItem(output_data[p[1]].val[p[2]], Col("submission_index")).n >= 1
           /\ \A q \in Places :
                  (q[1] = p[1] /\ q[2] < p[2])
                  => GetItem(output_data[q[1]].val[q[2]], Col("id")).n
                       < GetItem(output_data[p[1]].val[p[2]], Col("id")).n

\* C9, its case: the run has written its files after a pass that counted a
\* skip, and the records of two passes or more are in the buffers.
C9_Witness ==
    /\ pc = "done"
    /\ skipped > 0
    /\ idx >= 2
    /\ Buffered(output_data, 1) = idx

-----------------------------------------------------------------------------
(* The properties of the normalizers                                        *)

\* C5: for a Stroop payload whose descriptions, where present, are strings,
\* _process_task_stroop returns, the record has the four columns of each of
\* the 30 slots, every slot after the last interaction has null Date_Time,
\* Color and Spelling, and a slot whose interaction has no description has
\* null Color and Spelling.
C5_StroopThirtySlots ==
    (/\ pc \in {"returned", "raised"}
     /\ data.has_timestamps
     /\ data.results = "dict"
     /\ data.task = "at_stroopeffect"
     /\ \A j \in 1..Len(data.interactions) :
            data.interactions[j].has_description
            => data.interactions[j].description.k = "str")
    => /\ pc = "returned"
       /\ \A slot \in 1..StroopSlots :
              /\ \A name \in {"Date_Time", "Correct", "Color", "Spelling"} :
                     HasKey(parsed_record, InterCol(slot, name))
              /\ slot > Len(data.interactions)
                 => \A name \in {"Date_Time", "Color", "Spelling"} :
                        GetItem(parsed_record, InterCol(slot, name)) = None
              /\ (slot <= Len(data.interactions)
                  /\ ~data.interactions[slot].has_description)
                 => \A name \in {"Color", "Spelling"} :
                        GetItem(parsed_record, InterCol(slot, name)) = None

\* C6: Date_as_Number is the calendar date of the start timestamp itself,
\* whatever the time of day and the UTC offset of the zone.
C6_DateAsNumberIsStartDate ==
    pc = "returned"
    => GetItem(parsed_record, Col("Date_as_Number")) = Num(StrfYmd(data.start))

\* The blocks of a type, by their places in the list.
BlocksOf(type) == {j \in 1..Len(data.blocks) : data.blocks[j].type = type}

\* The sum of the values of the blocks at the places S.
RECURSIVE SumOfValues(_)
SumOfValues(S) ==
    IF S = {}
    THEN 0
    ELSE LET j == CHOOSE j \in S : TRUE
         IN  data.blocks[j].value + SumOfValues(S \ {j})

\* The least member of a non-empty set of numbers.
Min(S) == CHOOSE x \in S : \A y \in S : x <= y

\* The column <prefix><TYPE><suffix> of the record.
HealthColumn(prefix, name, suffix) ==
    GetItem(parsed_record,
            [name |-> IF prefix = "" THEN <<name, suffix>> ELSE <<prefix, name>>,
             slot |-> 0])

\* C7, for one emitted type: no block of the type gives null in the four
\* columns; otherwise Total_Dates has one entry per distinct date of a
\* dateFrom, holding the sum of the values of the type's blocks that start
\* on that date, the session starts at the least dateFrom and ends at the
\* greatest dateTo of the type's blocks (a block's own timestamp when it
\* names no offset), and Hours_Range is the hours between the two, to the
\* nearest hundredth.
HealthAggregated(type, name) ==
    LET B     == BlocksOf(type)
        first == Min({Timestamp(data.blocks[b].dateFrom, tz) : b \in B})
        last  == Max({Timestamp(data.blocks[b].dateTo, tz) : b \in B})
        total == HealthColumn("Total_Dates_", name, "")
        hours == HealthColumn("", name, "_Hours_Range")
    IN  IF B = {}
        THEN /\ total = None
             /\ HealthColumn("", name, "_Session_Start_Time") = None
             /\ HealthColumn("", name, "_Session_End_Time") = None
             /\ hours = None
        ELSE /\ total.k = "packed"
             /\ {total.l[j].key : j \in 1..Len(total.l)}
                  = {StrfYmd(data.blocks[b].dateFrom) : b \in B}
             /\ Len(total.l) = Cardinality({StrfYmd(data.blocks[b].dateFrom) : b \in B})
             /\ \A j \in 1..Len(total.l) :
                    total.l[j].val
                      = SumOfValues({b \in B :
                            StrfYmd(data.blocks[b].dateFrom) = total.l[j].key})
             /\ HealthColumn("", name, "_Session_Start_Time")
                  = Iso(FromTimestamp(first, tz))
             /\ HealthColumn("", name, "_Session_End_Time")
                  = Iso(FromTimestamp(last, tz))
             /\ \A b \in B :
                    /\ (Timestamp(data.blocks[b].dateFrom, tz) = first
                        /\ ~data.blocks[b].dateFrom.aware)
                       => HealthColumn("", name, "_Session_Start_Time")
                            = Iso(data.blocks[b].dateFrom)
                    /\ (Timestamp(data.blocks[b].dateTo, tz) = last
                        /\ ~data.blocks[b].dateTo.aware)
                       => HealthColumn("", name, "_Session_End_Time")
                            = Iso(data.blocks[b].dateTo)
             /\ hours.k = "num"
             /\ (last - first) * 100 - 1800 <= hours.n * 3600
             /\ hours.n * 3600 <= (last - first) * 100 + 1800

\* C7: when _process_healthdata returns, the columns of STEPS and of
\* ACTIVE_ENERGY_BURNED are the per-date sums, the least start, the greatest
\* end and the hours between them of the blocks of that type alone, in
\* whatever order the blocks come, and null for a type without a block.
C7_HealthAggregation ==
    pc = "returned"
    => /\ HealthAggregated("HealthDataType.STEPS", "STEPS")
       /\ HealthAggregated("HealthDataType.ACTIVE_ENERGY_BURNED", "ACTIVE_ENERGY_BURNED")

\* C7, its case: two STEPS blocks of the same date with values 250 and 100,
\* in that order, give the one entry 350 for that date.
C7_Witness ==
    /\ pc = "returned"
    /\ Len(data.blocks) = 2
    /\ BlocksOf("HealthDataType.STEPS") = {1, 2}
    /\ data.blocks[1].value = 250
    /\ data.blocks[2].value = 100
    /\ HealthColumn("Total_Dates_", "STEPS", "").l = <<[key |-> 20210317, val |-> 350]>>
    /\ HealthColumn("Total_Dates_", "ACTIVE_ENERGY_BURNED", "") = None

\* The interactions after the first that differ (or not) from the one before
\* and name the hand (right is looked for first).
Taps(differ, hand) ==
    {j \in 2..Len(data.interactions) :
        /\ (data.interactions[j - 1].description # data.interactions[j].description)
             = differ
        /\ IF hand = "right"
           THEN ContainsWord(data.interactions[j].description.s, "right")
           ELSE /\ ~ContainsWord(data.interactions[j].description.s, "right")
                /\ ContainsWord(data.interactions[j].description.s, "left")}

\* C10: Missing_data is 0 at every point of _process_task_tapping; when it
\* returns, each counter is the number of interactions after the first that
\* differ from (Correct) or repeat (Incorrect) the description before them
\* and name the right hand or, failing that, the left, and the four counters
\* add up to at most the number of interactions less one.
C10_TappingClassification ==
    /\ counters.missing_data = 0
    /\ pc = "returned"
       => /\ GetItem(parsed_record, Col("Correct_Right_Hand"))
               = Num(Cardinality(Taps(TRUE, "right")))
          /\ GetItem(parsed_record, Col("Correct_Left_Hand"))
               = Num(Cardinality(Taps(TRUE, "left")))
          /\ GetItem(parsed_record, Col("Incorrect_Right_Hand"))
               = Num(Cardinality(Taps(FALSE, "right")))
          /\ GetItem(parsed_record, Col("Incorrect_Left_Hand"))
               = Num(Cardinality(Taps(FALSE, "left")))
          /\ GetItem(parsed_record, Col("Missing_data")) = Num(0)
          /\ Len(data.interactions) >= 1
             => GetItem(parsed_record, Col("Correct_Right_Hand")).n
                  + GetItem(parsed_record, Col("Correct_Left_Hand")).n
                  + GetItem(parsed_record, Col("Incorrect_Right_Hand")).n
                  + GetItem(parsed_record, Col("Incorrect_Left_Hand")).n
                  <= Len(data.interactions) - 1

\* C10, its case: three interactions, the third repeating the second, with
\* one change to the left hand and one repeat of it counted.
C10_Witness ==
    /\ pc = "returned"
    /\ Len(data.interactions) = 3
    /\ data.interactions[1].description # data.interactions[2].description
    /\ data.interactions[2].description = data.interactions[3].description
    /\ GetItem(parsed_record, Col("Correct_Left_Hand")) = Num(1)
    /\ GetItem(parsed_record, Col("Incorrect_Left_Hand")) = Num(1)
    /\ GetItem(parsed_record, Col("Correct_Right_Hand")) = Num(0)

=============================================================================
